---- MODULE Spec2Model ----
(***************************************************************************)
(* Model of pyngs' SFF reader, src/src/biofile/sff.py.                     *)
(*                                                                         *)
(* The byte stream is an input.  Its length and its first four bytes are   *)
(* fixed in the initial state; every other field is drawn from a small set *)
(* at the moment the reader decodes the bytes that hold it (the reader is  *)
(* forward-only, so every field is decoded once).  The exceptions the      *)
(* Python code raises keep their Python names:                             *)
(*   "AssertionError"  a failed assert (bad magic number)                  *)
(*   "struct.error"    struct.unpack on a buffer shorter than the format,  *)
(*                     i.e. the stream ended inside a field                *)
(*   "NameError"       use of an undefined name                            *)
(* Specification Spec is the archive reader (SffFile); SpecView is the     *)
(* record layer (_ReadHeader, SffRead) applied to arbitrary stored fields. *)
(***************************************************************************)
EXTENDS Integers, Sequences, FiniteSets, TLC

----------------------------------------------------------------------------
(* Bounds and input domains *)

MaxReads == 2          \* largest number_of_reads a header declares
MaxGens == 2           \* how many times the consumer obtains SffFile.reads
MaxClip == 4           \* largest stored clip value drawn in SpecView
MaxBases == 2          \* largest number_of_bases drawn from a stream
MaxViewBases == 3      \* largest number_of_bases of a record whose views are taken
MaxNum == 1400         \* the codec encodes every number up to this one
MaxOps == 2            \* how many codec calls are chained
MaxItems == 2          \* how many products the producer target yields
MaxConsumers == 2      \* largest nconsumer passed to libmp.run

\* stream lengths: every length up to one fixed header and a bit, then a
\* grid of lengths that put the end of the stream inside and between records
Sizes == (0..34) \cup {39, 40, 47, 56, 58, 64, 72, 80, 87, 88, 96, 104, 120}

_SFF == 779314790      \* 0x2E736666, '.sff'
_MFT == 778921588      \* 0x2E6D6674, '.mft'
BadMagic == _SFF + 1   \* four bytes that are not the magic number

Magics == {_SFF, BadMagic}
IdxOffsets == {0, 88, 104}
IdxLens == {0, 16}
HLens == {32, 36, 40}
KLens == {0, 4}
FLens == {0, 1, 2, 4}
RHLens == {16, 24}
NLens == {0, 2}
BaseNums == 0..MaxBases
XmlSizes == {0, 4}
IndexVersions == {0, 65536}       \* the 4 version bytes of an index block
StreamClips == {<<2, 3, 1, 0>>}
ClipVals == 0..MaxClip

----------------------------------------------------------------------------
VARIABLES
  stream,     \* the file: [size, magic]
  pos,        \* offset of SffFile._handle
  st,         \* progress of SffFile.__init__
  openErr,    \* exception raised by SffFile.__init__, or "none"
  header,     \* SffFile.header, a _CommonHeader
  index,      \* SffFile.index: has the index been parsed, and its xml size
  gen,        \* the generator returned by SffFile.reads
  gi,         \* the generator's loop variable i
  genErr,     \* exception that ended the generator, or "none"
  ngen,       \* number of generators obtained from this SffFile
  emitted,    \* number of records yielded on this handle
  stored,     \* the 16-byte read header last unpacked, as stored in the file
  rec,        \* the last SffRead built: its _ReadHeader
  last,       \* what the last __parse_read call did to the stream
  attempts,   \* number of __parse_read calls
  idxSeeks,   \* number of seeks done by __parse_index
  valid,      \* the stream decoded so far is laid out as the format says
  fmtOff,     \* offset at which the format puts the next record
  handle,     \* SffFile._handle, the file object: "none", "open" or "closed"
  yielded,    \* the SffRead objects the consumer holds, in the order yielded
  cin,        \* codec utilities: the argument of the first call
  cval,       \* codec utilities: the value returned by the last call
  cops,       \* codec utilities: the functions called so far
  read,       \* record views: the SffRead whose views are taken
  out,        \* record views: what the last view property returned or raised
  args,       \* libmp.run: the arguments pnum, nconsumer and the targets
  nconsumer,  \* libmp.run: its local nconsumer once computed
  runpc,      \* libmp.run: where the calling process is
  runErr,     \* libmp.run: the exception run raised, or "none"
  todo,       \* libmp: the products the producer target has yet to yield
  producer_queue,  \* libmp: Queue from the producer to the consumers
  consumer_queue,  \* libmp: Queue from the consumers to the reporter
  pstate,     \* libmp: the producer process
  cstate,     \* libmp: the consumer processes
  rstate,     \* libmp: the reporter process
  handed,     \* libmp: the items passed to the consumer target, per consumer
  reported    \* libmp: the results passed to the reporter target, in order

vars == <<stream, pos, st, openErr, header, index, gen, gi, genErr, ngen,
          emitted, stored, rec, last, attempts, idxSeeks, valid, fmtOff,
          handle, yielded, cin, cval, cops, read, out, args, nconsumer,
          runpc, runErr, todo, producer_queue, consumer_queue, pstate, cstate, rstate,
          handed, reported>>

Min(a, b) == IF a <= b THEN a ELSE b
Max(a, b) == IF a >= b THEN a ELSE b

\* 'rounded up to the next value divisible by 8'
RoundUp8(n) == ((n + 7) \div 8) * 8

NoHeader == [magic |-> 0, idx_offset |-> 0, idx_len |-> 0, reads_num |-> 0,
             hlen |-> 0, klen |-> 0, flen |-> 0]
NoIndex == [parsed |-> FALSE, xml |-> 0, magic |-> 0, version |-> 0]
NoRead == [hlen |-> 0, nlen |-> 0, bnum |-> 0, qleft |-> 0, qright |-> 0,
           aleft |-> 0, aright |-> 0]
NoStored == [rhl |-> 0, nlen |-> 0, bnum |-> 0, ql |-> 0, qr |-> 0,
             al |-> 0, ar |-> 0]
NoValue == [kind |-> "none", num |-> 0, str |-> <<>>, date |-> <<>>,
            xy |-> <<>>]
NoSffRead == [header |-> NoRead, name |-> <<>>, bases |-> <<>>,
              quals |-> <<>>]
NoTitle == [err |-> "none", name |-> <<>>, xy |-> <<0, 0>>, region |-> 0,
            length |-> 0]
NoOut == [view |-> "none", err |-> "none", title |-> NoTitle, body |-> <<>>,
          quals |-> <<>>]
NotGiven == [given |-> FALSE, val |-> 0]
NoArgs == [pnum |-> NotGiven, nconsumer |-> NotGiven, consumer |-> "none",
           products |-> <<>>]
NoProcess == [pc |-> "none", counter |-> 0, item |-> "none", dones |-> 0]
NoLast == [start |-> 0, fmtStart |-> 0, unpacked |-> FALSE, ok |-> FALSE,
           err |-> "none", nameGot |-> 0, hdrPad |-> 0, hdrPadGot |-> 0,
           short |-> FALSE,
           payload |-> 0, dataPad |-> 0, dataPadGot |-> 0, endpos |-> 0]

----------------------------------------------------------------------------
(* The file object *)

\* bytes left in the stream at offset p (a seek may go past the end)
Avail(p) == IF p < stream.size THEN stream.size - p ELSE 0

\* file.read(n): at most n bytes; a negative n reads up to the end
ReadLen(p, n) == IF n < 0 THEN Avail(p) ELSE Min(n, Avail(p))

\* SffFile._get: read calcsize(fmt) = n bytes and unpack them;
\* struct.unpack raises struct.error unless it gets exactly n bytes
Get(p, n) == [ok |-> ReadLen(p, n) = n, pos |-> p + ReadLen(p, n)]

----------------------------------------------------------------------------
(* SffFile.__init__ *)

\* variant: the magic number is not checked
MagicUnchecked(magic) == TRUE

\* assert magic == _SFF, "Not Legal sff file"
MagicOk(magic) == magic = _SFF

\* self._handle = open(fname, 'rb').  Nothing in the module closes it.
Open ==
  /\ handle = "none"
  /\ handle' = "open"
  /\ UNCHANGED <<stream, pos, st, openErr, header, index, gen, gi, genErr,
                 ngen, emitted, stored, rec, last, attempts, idxSeeks, valid,
                 fmtOff, yielded, cin, cval, cops>>
  /\ UNCHANGED <<read, out, args, nconsumer, runpc, runErr, todo, producer_queue,
                 consumer_queue, pstate, cstate, rstate, handed, reported>>

\* SffFile.__parse_common_header: seek(0), unpack the 31 fixed bytes, check
\* the magic number, then unpack flow_chars and key_sequence
ParseCommonHeader ==
  /\ handle = "open"
  /\ st = "Unopened" /\ openErr = "none"
  /\ LET fixed == Get(0, 31) IN
     \/ /\ ~fixed.ok
        /\ openErr' = "struct.error" /\ pos' = fixed.pos
        /\ UNCHANGED <<st, header, valid, fmtOff>>
     \/ /\ fixed.ok /\ ~MagicOk(stream.magic)
        /\ openErr' = "AssertionError" /\ pos' = fixed.pos
        /\ UNCHANGED <<st, header, valid, fmtOff>>
     \/ /\ fixed.ok /\ MagicOk(stream.magic)
        /\ \E io \in IdxOffsets, il \in IdxLens, rn \in 0..MaxReads,
              hl \in HLens, kl \in KLens, fl \in FLens :
             LET flow_chars == Get(fixed.pos, fl)
                 key_sequence == Get(flow_chars.pos, kl)
             IN  IF ~flow_chars.ok
                 THEN /\ openErr' = "struct.error" /\ pos' = flow_chars.pos
                      /\ UNCHANGED <<st, header, valid, fmtOff>>
                 ELSE IF ~key_sequence.ok
                 THEN /\ openErr' = "struct.error" /\ pos' = key_sequence.pos
                      /\ UNCHANGED <<st, header, valid, fmtOff>>
                 ELSE /\ header' = [magic |-> stream.magic, idx_offset |-> io,
                                    idx_len |-> il, reads_num |-> rn,
                                    hlen |-> hl, klen |-> kl, flen |-> fl]
                      /\ pos' = key_sequence.pos
                      /\ st' = "HeaderParsed"
                      /\ openErr' = "none"
                      \* the format: header_length is 31 + flows + key rounded
                      \* up to 8; index fields are both 0 or both set
                      /\ valid' = /\ hl = RoundUp8(31 + fl + kl)
                                  /\ hl <= stream.size
                                  /\ (io = 0) = (il = 0)
                      /\ fmtOff' = hl
  /\ UNCHANGED <<stream, index, gen, gi, genErr, ngen, emitted, stored, rec,
                 last, attempts, idxSeeks>>
  /\ UNCHANGED <<handle, yielded, cin, cval, cops>>
  /\ UNCHANGED <<read, out, args, nconsumer, runpc, runErr, todo, producer_queue,
                 consumer_queue, pstate, cstate, rstate, handed, reported>>

\* variant: any index magic number is accepted
IndexMagicUnchecked(idx_magic, idx_version) == TRUE

\* assert idx_magic == _MFT: the version unpacked with it is not looked at
IndexMagicOk(idx_magic, idx_version) == idx_magic = _MFT

\* SffFile.__parse_index.  Without an index it executes 'return Index()',
\* and the module defines no name Index (the class is _Index): NameError.
ParseIndex ==
  /\ st = "HeaderParsed" /\ openErr = "none"
  /\ IF header.idx_offset = 0 \/ header.idx_len = 0
     THEN /\ openErr' = "NameError"
          /\ UNCHANGED <<pos, st, index, idxSeeks, valid>>
     ELSE LET magic_version == Get(header.idx_offset, 8)
              sizes == Get(magic_version.pos, 8)
          IN  /\ idxSeeks' = idxSeeks + 1
              /\ \/ /\ ~magic_version.ok
                    /\ openErr' = "struct.error" /\ pos' = magic_version.pos
                    /\ UNCHANGED <<st, index, valid>>
                 \/ /\ magic_version.ok
                    /\ \E idx_magic \in {_MFT, BadMagic},
                          idx_version \in IndexVersions :
                         IF ~IndexMagicOk(idx_magic, idx_version)
                         THEN /\ openErr' = "AssertionError"
                              /\ pos' = magic_version.pos
                              /\ index' = [NoIndex EXCEPT
                                             !.magic = idx_magic,
                                             !.version = idx_version]
                              /\ UNCHANGED <<st, valid>>
                         ELSE IF ~sizes.ok
                         THEN /\ openErr' = "struct.error"
                              /\ pos' = sizes.pos
                              /\ index' = [NoIndex EXCEPT
                                             !.magic = idx_magic,
                                             !.version = idx_version]
                              /\ UNCHANGED <<st, valid>>
                         ELSE \E xml_size \in XmlSizes :
                                LET got == ReadLen(sizes.pos, xml_size) IN
                                /\ index' = [parsed |-> TRUE, xml |-> got,
                                             magic |-> idx_magic,
                                             version |-> idx_version]
                                /\ pos' = sizes.pos + got
                                /\ st' = "IndexParsed"
                                /\ openErr' = "none"
                                /\ valid' = /\ valid
                                            /\ header.idx_offset >= header.hlen
                                            /\ 16 + xml_size <= header.idx_len
                                            /\ header.idx_offset + header.idx_len
                                                 <= stream.size
  /\ UNCHANGED <<stream, header, gen, gi, genErr, ngen, emitted, stored, rec,
                 last, attempts, fmtOff>>
  /\ UNCHANGED <<handle, yielded, cin, cval, cops>>
  /\ UNCHANGED <<read, out, args, nconsumer, runpc, runErr, todo, producer_queue,
                 consumer_queue, pstate, cstate, rstate, handed, reported>>

\* variant: no seek, the records are read from where the key sequence ends
DataStartAfterKey(h) == 31 + h.flen + h.klen

\* the offset __init__ seeks to before any record is read
DataStart(h) == h.hlen

\* self._handle.seek(self.header.hlen)
SeekData ==
  /\ st = "IndexParsed" /\ openErr = "none"
  /\ pos' = DataStart(header)
  /\ st' = "Streaming"
  /\ UNCHANGED <<stream, openErr, header, index, gen, gi, genErr, ngen,
                 emitted, stored, rec, last, attempts, idxSeeks, valid, fmtOff>>
  /\ UNCHANGED <<handle, yielded, cin, cval, cops>>
  /\ UNCHANGED <<read, out, args, nconsumer, runpc, runErr, todo, producer_queue,
                 consumer_queue, pstate, cstate, rstate, handed, reported>>

----------------------------------------------------------------------------
(* Records *)

\* variant: the left clips kept 1-based
_ReadHeaderRaw(header_length, name_length, base_num, qual_left, qual_right, adapter_left, adapter_right) ==
  [hlen |-> header_length, nlen |-> name_length, bnum |-> base_num,
   qleft |-> qual_left, qright |-> qual_right,
   aleft |-> adapter_left, aright |-> adapter_right]

\* _ReadHeader.__init__: the left clips are stored minus one
_ReadHeader(header_length, name_length, base_num, qual_left, qual_right, adapter_left, adapter_right) ==
  [hlen |-> header_length, nlen |-> name_length, bnum |-> base_num,
   qleft |-> qual_left - 1, qright |-> qual_right,
   aleft |-> adapter_left - 1, aright |-> adapter_right]

\* variant: no floor at 0
lclipNoFloor(r) == Max(r.qleft, r.aleft)

\* SffRead.lclip: max((0, header.qleft, header.aleft))
lclip(r) == Max(0, Max(r.qleft, r.aleft))

\* variant: an unset right clip is not replaced by the number of bases
rclipNoUnset(r) == Min(r.qright, r.aright)

\* SffRead.rclip: min of the two right clips, an unset (0) one replaced by
\* the number of bases
rclip(r) == Min(IF r.qright # 0 THEN r.qright ELSE r.bnum,
                IF r.aright # 0 THEN r.aright ELSE r.bnum)

\* variant: both ends of the clip interval counted
lengthInclusive(r) == rclip(r) - lclip(r) + 1

\* SffRead.length
length(r) == rclip(r) - lclip(r)

\* __parse_read, header block: padding = read_header_length - 16 - name_length
HeaderPadding(read_header_length, name_length) ==
  read_header_length - 16 - name_length

\* variant: 'padding' bytes are read instead of 8 - padding
DataPaddingRaw(flen, base_num) == (2 * flen + 3 * base_num) % 8

\* variant: 8 - padding bytes are read even when padding is 0
DataPaddingAlways(flen, base_num) == 8 - ((2 * flen + 3 * base_num) % 8)

\* __parse_read, data block: padding = (2 * flen + 3 * base_num) % 8, and
\* 8 - padding bytes are read when it is not 0
DataPadding(flen, base_num) ==
  LET padding == (2 * flen + 3 * base_num) % 8
  IN  IF padding # 0 THEN 8 - padding ELSE 0

\* SffFile.__parse_read from offset p, once the 16 fixed bytes are unpacked:
\* what each read call of the method gets from the stream
ParseRead(p, flen, read_header_length, name_length, base_num) ==
  LET nameGot == ReadLen(p + 16, name_length)
      p1 == p + 16 + nameGot
      padding == HeaderPadding(read_header_length, name_length)
      hdrPadGot == IF padding # 0 THEN ReadLen(p1, padding) ELSE 0
      p2 == p1 + hdrPadGot
      flows == Get(p2, 2 * flen)
      idxs == Get(flows.pos, base_num)
      bases == Get(idxs.pos, base_num)
      quals == Get(bases.pos, base_num)
      dataPad == DataPadding(flen, base_num)
      dataPadGot == IF dataPad # 0 THEN ReadLen(quals.pos, dataPad) ELSE 0
      ok == flows.ok /\ idxs.ok /\ bases.ok /\ quals.ok
      endpos == IF ~flows.ok THEN flows.pos
                ELSE IF ~idxs.ok THEN idxs.pos
                ELSE IF ~bases.ok THEN bases.pos
                ELSE IF ~quals.ok THEN quals.pos
                ELSE quals.pos + dataPadGot
  IN  [start |-> p, fmtStart |-> 0, unpacked |-> TRUE, ok |-> ok,
       err |-> IF ok THEN "none" ELSE "struct.error",
       nameGot |-> nameGot, hdrPad |-> padding, hdrPadGot |-> hdrPadGot,
       short |-> \/ nameGot < name_length
                 \/ (padding > 0 /\ hdrPadGot < padding)
                 \/ (ok /\ dataPadGot < dataPad),
       payload |-> IF ok THEN quals.pos - p2 ELSE 0,
       dataPad |-> IF ok THEN dataPad ELSE 0,
       dataPadGot |-> IF ok THEN dataPadGot ELSE 0,
       endpos |-> endpos]

\* the 16 fixed bytes a read header at offset p can hold.  At the offset of
\* a parsed index block they are the index's own bytes: '.mft', the version
StoredAt(p) ==
  IF index.parsed /\ p = header.idx_offset
  THEN {[rhl |-> _MFT \div 65536, nlen |-> _MFT % 65536,
         bnum |-> index.version,
         ql |-> 0, qr |-> index.xml, al |-> 0, ar |-> 0]}
  ELSE {[rhl |-> h, nlen |-> n, bnum |-> b,
         ql |-> c[1], qr |-> c[2], al |-> c[3], ar |-> c[4]] :
          h \in RHLens, n \in NLens, b \in BaseNums, c \in StreamClips}

\* the property SffFile.reads: a new generator over xrange(reads_num)
GetReads ==
  /\ st = "Streaming" /\ ngen < MaxGens
  /\ gen' = "active" /\ gi' = 0 /\ genErr' = "none"
  /\ ngen' = ngen + 1
  /\ UNCHANGED <<stream, pos, st, openErr, header, index, emitted, stored,
                 rec, last, attempts, idxSeeks, valid, fmtOff>>
  /\ UNCHANGED <<handle, yielded, cin, cval, cops>>
  /\ UNCHANGED <<read, out, args, nconsumer, runpc, runErr, todo, producer_queue,
                 consumer_queue, pstate, cstate, rstate, handed, reported>>

\* variant: one SffRead object is reused for every record, so the records
\* already handed out show the fields of the newest one
YieldShared(ys, r) == [i \in 1..(Len(ys) + 1) |-> r]

\* 'yield self.__parse_read()': the consumer gets the new SffRead object
\* that __parse_read built (sff.py:738) and keeps those it got before
Yield(ys, r) == Append(ys, r)

\* variant: one iteration too many
HasNextInclusive(i, reads_num) == i <= reads_num

\* for i in xrange(self.header.reads_num)
HasNext(i, reads_num) == i < reads_num

\* the extent the format gives a record with these stored fields
FmtLen(flen, s) == RoundUp8(16 + s.nlen) + RoundUp8(2 * flen + 3 * s.bnum)

\* next() on the generator: StopIteration past the last index, else
\* 'yield self.__parse_read()'
NextRead ==
  /\ gen = "active"
  /\ IF ~HasNext(gi, header.reads_num)
     THEN /\ gen' = "exhausted"
          /\ UNCHANGED <<pos, gi, genErr, emitted, stored, rec, last,
                         attempts, valid, fmtOff, yielded>>
     ELSE LET fixed == Get(pos, 16) IN
          /\ attempts' = attempts + 1
          /\ IF ~fixed.ok
             THEN /\ gen' = "failed" /\ genErr' = "struct.error"
                  /\ pos' = fixed.pos
                  /\ last' = [NoLast EXCEPT !.start = pos, !.fmtStart = fmtOff,
                                            !.err = "struct.error",
                                            !.endpos = fixed.pos]
                  \* a declared record is missing from the stream
                  /\ valid' = IF ngen = 1 THEN FALSE ELSE valid
                  /\ UNCHANGED <<gi, emitted, stored, rec, fmtOff, yielded>>
             ELSE \E s \in StoredAt(pos) :
                    LET r == ParseRead(pos, header.flen, s.rhl, s.nlen, s.bnum)
                        fmtEnd == fmtOff + FmtLen(header.flen, s)
                    IN  /\ stored' = s
                        /\ last' = [r EXCEPT !.fmtStart = fmtOff]
                        /\ pos' = r.endpos
                        /\ fmtOff' = fmtEnd
                        /\ valid' = IF ngen = 1
                                    THEN /\ valid
                                         /\ s.rhl = RoundUp8(16 + s.nlen)
                                         /\ fmtEnd <= stream.size
                                         /\ fmtEnd <= header.idx_offset
                                    ELSE valid
                        /\ IF r.ok
                           THEN /\ rec' = _ReadHeader(s.rhl, s.nlen, s.bnum,
                                                      s.ql, s.qr, s.al, s.ar)
                                /\ yielded' = Yield(yielded, rec')
                                /\ emitted' = emitted + 1
                                /\ gi' = gi + 1
                                /\ UNCHANGED <<gen, genErr>>
                           ELSE /\ gen' = "failed" /\ genErr' = r.err
                                /\ UNCHANGED <<gi, emitted, rec, yielded>>
  /\ UNCHANGED <<stream, st, openErr, header, index, ngen, idxSeeks>>
  /\ UNCHANGED <<handle, cin, cval, cops>>
  /\ UNCHANGED <<read, out, args, nconsumer, runpc, runErr, todo, producer_queue,
                 consumer_queue, pstate, cstate, rstate, handed, reported>>

----------------------------------------------------------------------------
InitHandle ==
  /\ pos = 0 /\ st = "Unopened" /\ openErr = "none"
  /\ header = NoHeader /\ index = NoIndex
  /\ gen = "none" /\ gi = 0 /\ genErr = "none" /\ ngen = 0
  /\ emitted = 0 /\ stored = NoStored /\ rec = NoRead /\ last = NoLast
  /\ attempts = 0 /\ idxSeeks = 0
  /\ valid = FALSE /\ fmtOff = 0
  /\ handle = "none" /\ yielded = <<>>

\* none of the codec utilities has been called
CodecIdle == cin = NoValue /\ cval = NoValue /\ cops = <<>>

\* no record view has been taken
ViewsIdle == read = NoSffRead /\ out = NoOut

\* libmp.run has not been called
PoolIdle ==
  /\ args = NoArgs /\ nconsumer = 0 /\ runpc = "idle" /\ runErr = "none"
  /\ todo = <<>>
  /\ producer_queue = <<>> /\ consumer_queue = <<>>
  /\ pstate = NoProcess /\ cstate = <<>> /\ rstate = NoProcess
  /\ handed = <<>> /\ reported = <<>>

Init ==
  /\ \E size \in Sizes :
       \E magic \in (IF size >= 4 THEN Magics ELSE {BadMagic}) :
         stream = [size |-> size, magic |-> magic]
  /\ InitHandle /\ CodecIdle /\ ViewsIdle /\ PoolIdle

Next == Open \/ ParseCommonHeader \/ ParseIndex \/ SeekData \/ GetReads \/ NextRead

Spec == Init /\ [][Next]_vars

----------------------------------------------------------------------------
(* The record layer on its own: SffRead(header, data) built from a read    *)
(* header holding any stored clip values                                   *)

NewSffRead ==
  /\ rec = NoRead
  /\ \E n \in NLens, b \in BaseNums, ql \in ClipVals, qr \in ClipVals,
        al \in ClipVals, ar \in ClipVals :
       /\ stored' = [rhl |-> RoundUp8(16 + n), nlen |-> n, bnum |-> b,
                     ql |-> ql, qr |-> qr, al |-> al, ar |-> ar]
       /\ rec' = _ReadHeader(RoundUp8(16 + n), n, b, ql, qr, al, ar)
  /\ UNCHANGED <<stream, pos, st, openErr, header, index, gen, gi, genErr,
                 ngen, emitted, last, attempts, idxSeeks, valid, fmtOff>>
  /\ UNCHANGED <<handle, yielded, cin, cval, cops>>
  /\ UNCHANGED <<read, out, args, nconsumer, runpc, runErr, todo, producer_queue,
                 consumer_queue, pstate, cstate, rstate, handed, reported>>

InitView ==
  /\ stream = [size |-> 0, magic |-> BadMagic] /\ InitHandle
  /\ CodecIdle /\ ViewsIdle /\ PoolIdle

NextView == NewSffRead

SpecView == InitView /\ [][NextView]_vars

----------------------------------------------------------------------------
(* The name codec: base36, debase36, timestamp, detimestamp, xyloc and     *)
(* dexyloc.  A string is the sequence of its character codes.              *)

ASCII_A == 65
ASCII_0 == 48

\* widths of the timestamp and of the coordinate part of a read name
TimeWidth == 6
XYWidth == 5

\* str.isdigit and str.isalpha of a one-character byte string
IsDigit(c) == c \in 48..57
IsAlpha(c) == c \in (65..90) \cup (97..122)

Reverse(s) == [i \in 1..Len(s) |-> s[Len(s) + 1 - i]]

\* the list _str that the while loop of base36 builds: one character per
\* digit, least significant first, and nothing at all for num = 0
RECURSIVE base36Digits(_)
base36Digits(num) ==
  IF num = 0 THEN <<>>
  ELSE LET mod == num % 36
       IN  <<IF mod < 26 THEN ASCII_A + mod ELSE ASCII_0 + mod - 26>>
             \o base36Digits(num \div 36)

\* variant: the digit list is joined without being reversed
base36Unreversed(num) == base36Digits(num)

\* ''.join(_str[::-1])
base36(num) == Reverse(base36Digits(num))

\* the characters debase36 accepts: it raises ValueError on any other one
Legal36(s) == \A i \in 1..Len(s) : IsDigit(s[i]) \/ IsAlpha(s[i])

\* the value debase36 gives one character
CharValue(c) == IF IsDigit(c) THEN c - ASCII_0 + 26 ELSE c - ASCII_A

\* total = total * 36 + num over the characters from left to right
RECURSIVE debase36(_)
debase36(s) ==
  IF s = <<>> THEN 0
  ELSE debase36(SubSeq(s, 1, Len(s) - 1)) * 36 + CharValue(s[Len(s)])

timestamp(year, month, day, hour, minute, second) ==
  base36((year - 2000) * 13 * 32 * 24 * 60 * 60
         + month * 32 * 24 * 60 * 60
         + day * 24 * 60 * 60
         + hour * 60 * 60
         + minute * 60
         + second)

\* variant: twelve months to the year
detimestampTwelve(date) ==
  LET total == debase36(date)
      t1 == total \div 60
      t2 == t1 \div 60
      t3 == t2 \div 24
      t4 == t3 \div 32
  IN  <<(t4 \div 12) + 2000, t4 % 12, t3 % 32, t2 % 24, t1 % 60, total % 60>>

detimestamp(date) ==
  LET total == debase36(date)
      t1 == total \div 60
      t2 == t1 \div 60
      t3 == t2 \div 24
      t4 == t3 \div 32
  IN  <<(t4 \div 13) + 2000, t4 % 13, t3 % 32, t2 % 24, t1 % 60, total % 60>>

xyloc(x, y) == base36(x * 4096 + y)

\* variant: the coordinates are split at 4095
dexylocOffByOne(s) == <<debase36(s) \div 4095, debase36(s) % 4095>>

dexyloc(s) == <<debase36(s) \div 4096, debase36(s) % 4096>>

\* the values a call takes and returns
NumValue(n) == [kind |-> "num", num |-> n, str |-> <<>>, date |-> <<>>,
                xy |-> <<>>]
StrValue(s) == [kind |-> "str", num |-> 0, str |-> s, date |-> <<>>,
                xy |-> <<>>]
DateValue(d) == [kind |-> "date", num |-> 0, str |-> <<>>, date |-> d,
                 xy |-> <<>>]
XYValue(p) == [kind |-> "xy", num |-> 0, str |-> <<>>, date |-> <<>>,
               xy |-> p]
ValueError == [kind |-> "ValueError", num |-> 0, str |-> <<>>, date |-> <<>>,
               xy |-> <<>>]

\* arguments: numbers up to MaxNum and around the five- and six-character
\* limits, strings of up to TimeWidth characters over 'A', 'B', 'Z', '9'
\* (and three with other characters), dates and coordinates at the ends of
\* their ranges
Nums == (0..MaxNum) \cup {36^XYWidth - 1, 36^XYWidth, 35 * 36^XYWidth - 1}
Alphabet == {65, 66, 90, 57}
Strs == UNION {[1..k -> Alphabet] : k \in 0..XYWidth}
        \cup {s \in [1..TimeWidth -> Alphabet] : s[1] # 57}
        \cup {<<45>>, <<66, 45>>, <<97>>}
Dates == {2000, 2001, 2030} \X {0, 1, 12} \X {0, 1, 31} \X {0, 23}
         \X {0, 59} \X {0, 1, 59}
XYs == {0, 1, 4095, 4096, 100000} \X {0, 1, 4095}
CodecInputs == {NumValue(n) : n \in Nums} \cup {StrValue(s) : s \in Strs}
               \cup {DateValue(d) : d \in Dates} \cup {XYValue(p) : p \in XYs}

Called(f) ==
  /\ cops' = Append(cops, f) /\ UNCHANGED cin
  /\ UNCHANGED <<read, out, args, nconsumer, runpc, runErr, todo, producer_queue,
                 consumer_queue, pstate, cstate, rstate, handed, reported>>

ReaderIdle ==
  UNCHANGED <<stream, pos, st, openErr, header, index, gen, gi, genErr, ngen,
              emitted, stored, rec, last, attempts, idxSeeks, valid, fmtOff,
              handle, yielded>>

CallBase36 ==
  /\ Len(cops) < MaxOps /\ cval.kind = "num"
  /\ cval' = StrValue(base36(cval.num))
  /\ Called("base36") /\ ReaderIdle

CallDebase36 ==
  /\ Len(cops) < MaxOps /\ cval.kind = "str"
  /\ cval' = IF Legal36(cval.str) THEN NumValue(debase36(cval.str))
             ELSE ValueError
  /\ Called("debase36") /\ ReaderIdle

CallTimestamp ==
  /\ Len(cops) < MaxOps /\ cval.kind = "date"
  /\ cval' = StrValue(timestamp(cval.date[1], cval.date[2], cval.date[3],
                                cval.date[4], cval.date[5], cval.date[6]))
  /\ Called("timestamp") /\ ReaderIdle

CallDetimestamp ==
  /\ Len(cops) < MaxOps /\ cval.kind = "str"
  /\ cval' = IF Legal36(cval.str) THEN DateValue(detimestamp(cval.str))
             ELSE ValueError
  /\ Called("detimestamp") /\ ReaderIdle

CallXyloc ==
  /\ Len(cops) < MaxOps /\ cval.kind = "xy"
  /\ cval' = StrValue(xyloc(cval.xy[1], cval.xy[2]))
  /\ Called("xyloc") /\ ReaderIdle

CallDexyloc ==
  /\ Len(cops) < MaxOps /\ cval.kind = "str"
  /\ cval' = IF Legal36(cval.str) THEN XYValue(dexyloc(cval.str))
             ELSE ValueError
  /\ Called("dexyloc") /\ ReaderIdle

InitCodec ==
  /\ stream = [size |-> 0, magic |-> BadMagic] /\ InitHandle
  /\ cin \in CodecInputs /\ cval = cin /\ cops = <<>>
  /\ ViewsIdle /\ PoolIdle

NextCodec ==
  \/ CallBase36 \/ CallDebase36 \/ CallTimestamp \/ CallDetimestamp
  \/ CallXyloc \/ CallDexyloc

SpecCodec == InitCodec /\ [][NextCodec]_vars

-----------------------------------------------------------------------------
(* The views of a record: SffRead.title, full_bases, fasta, fastq, qual    *)
(* and tab.  Strings are sequences of character codes; a title is kept as  *)
(* the values its format string is filled with.                            *)

\* s[a:b] for 0 <= a and 0 <= b: indices past the end are cut off
Slice(s, a, b) == SubSeq(s, Min(a, Len(s)) + 1, Min(b, Len(s)))

\* str.lower of one character
Lower(c) == IF c \in 65..90 THEN c + 32 ELSE c

\* int(s) of a string of letters and digits: ValueError unless it is a
\* non-empty string of digits
IsDecimal(s) == s # <<>> /\ \A i \in 1..Len(s) : IsDigit(s[i])
RECURSIVE IntOf(_)
IntOf(s) ==
  IF s = <<>> THEN 0
  ELSE IntOf(SubSeq(s, 1, Len(s) - 1)) * 10 + (s[Len(s)] - ASCII_0)

\* '{0}'.format(n) of a non-negative integer
RECURSIVE Decimal(_)
Decimal(n) ==
  IF n < 10 THEN <<ASCII_0 + n>>
  ELSE Decimal(n \div 10) \o <<ASCII_0 + (n % 10)>>

\* ' '.join of a list of strings
RECURSIVE JoinSpace(_)
JoinSpace(strs) ==
  IF strs = <<>> THEN <<>>
  ELSE IF Len(strs) = 1 THEN strs[1]
  ELSE strs[1] \o <<32>> \o JoinSpace(Tail(strs))

\* SffRead.quals: the quality scores in decimal, joined by spaces
quals(r) == JoinSpace([i \in 1..Len(r.quals) |-> Decimal(r.quals[i])])

\* SffRead.phred33_quals: one character chr(33 + qual) per score
phred33_quals(r) == [i \in 1..Len(r.quals) |-> 33 + r.quals[i]]

\* SffRead.title: x, y = self.xyloc = dexyloc(name[9:]), then the format
\* call evaluates self.region = int(name[7:9]) and self.length
title(r) ==
  LET xy == Slice(r.name, 9, Len(r.name))
      region == Slice(r.name, 7, 9)
  IN  IF ~Legal36(xy) \/ ~IsDecimal(region)
      THEN [NoTitle EXCEPT !.err = "ValueError"]
      ELSE [err |-> "none", name |-> r.name, xy |-> dexyloc(xy),
            region |-> IntOf(region), length |-> length(r.header)]

\* SffRead.full_bases: the three slices joined, the outer two lower-cased
full_bases(r) ==
  LET head == Slice(r.bases, 0, lclip(r.header))
      tail == Slice(r.bases, rclip(r.header), Len(r.bases))
  IN  [i \in 1..Len(head) |-> Lower(head[i])]
        \o Slice(r.bases, lclip(r.header), rclip(r.header))
        \o [i \in 1..Len(tail) |-> Lower(tail[i])]

\* a view made of a title line and the lines after it
Titled(view, r, body, qualities) ==
  IF title(r).err # "none"
  THEN [NoOut EXCEPT !.view = view, !.err = title(r).err]
  ELSE [view |-> view, err |-> "none", title |-> title(r), body |-> body,
        quals |-> qualities]

\* SffRead.fasta: '>' title, then bases[lclip:rclip]
fasta(r) ==
  Titled("fasta", r, Slice(r.bases, lclip(r.header), rclip(r.header)), <<>>)

\* SffRead.fastq: '@' title, bases[lclip:rclip], '+',
\* phred33_quals[lclip:rclip]
fastq(r) ==
  Titled("fastq", r, Slice(r.bases, lclip(r.header), rclip(r.header)),
         Slice(phred33_quals(r), lclip(r.header), rclip(r.header)))

\* SffRead.qual: '>' title, then the slice [lclip:rclip] of the quals string
qual(r) ==
  Titled("qual", r, Slice(quals(r), lclip(r.header), rclip(r.header)), <<>>)

\* SffRead.tab: '\t'.join(name, bases, quals, flows) passes four arguments
\* to str.join, which takes one: TypeError
tab(r) == [NoOut EXCEPT !.view = "tab", !.err = "TypeError"]

\* names: one of the accession convention ('C3U5GWL01CBXT2'), the
\* two-character 'ab', and 14 characters with a region that is no number
Names == {<<67, 51, 85, 53, 71, 87, 76, 48, 49, 67, 66, 88, 84, 50>>,
          <<97, 98>>,
          <<67, 51, 85, 53, 71, 87, 76, 88, 89, 67, 66, 88, 84, 50>>}

\* stored basecalls ('ACGT...', 'acgt...', 'AcgT...') and quality scores,
\* of which a record holds the first number_of_bases
BaseCalls == {<<65, 67, 71, 84, 65>>, <<97, 99, 103, 116, 97>>,
              <<65, 99, 103, 84, 97>>}
QualScores == {<<10, 20, 30, 40, 5>>, <<1, 2, 3, 4, 5>>}

\* the SffRead that __parse_read builds (sff.py:738) from a read header
\* with any stored clip values and a data block of number_of_bases bases
SffReads ==
  {[header |-> _ReadHeader(RoundUp8(16 + Len(n)), Len(n), b, ql, qr, al, ar),
    name |-> n, bases |-> SubSeq(bs, 1, b), quals |-> SubSeq(qs, 1, b)] :
     n \in Names, b \in 0..MaxViewBases, ql \in ClipVals, qr \in ClipVals,
     al \in ClipVals, ar \in ClipVals, bs \in BaseCalls, qs \in QualScores}

\* a property access changes nothing in the record
ReadKept ==
  /\ UNCHANGED <<stream, pos, st, openErr, header, index, gen, gi, genErr,
                 ngen, emitted, stored, rec, last, attempts, idxSeeks, valid,
                 fmtOff, handle, yielded, cin, cval, cops, read>>
  /\ UNCHANGED <<args, nconsumer, runpc, runErr, todo, producer_queue,
                 consumer_queue, pstate, cstate, rstate, handed, reported>>

GetFullBases ==
  /\ out = NoOut
  /\ out' = [NoOut EXCEPT !.view = "full_bases", !.body = full_bases(read)]
  /\ ReadKept

GetFasta ==
  /\ out = NoOut
  /\ out' = fasta(read)
  /\ ReadKept

GetFastq ==
  /\ out = NoOut
  /\ out' = fastq(read)
  /\ ReadKept

GetQual ==
  /\ out = NoOut
  /\ out' = qual(read)
  /\ ReadKept

GetTab ==
  /\ out = NoOut
  /\ out' = tab(read)
  /\ ReadKept

InitRender ==
  /\ stream = [size |-> 0, magic |-> BadMagic] /\ InitHandle
  /\ CodecIdle /\ PoolIdle
  /\ read \in SffReads /\ out = NoOut

NextRender == GetFullBases \/ GetFasta \/ GetFastq \/ GetQual \/ GetTab

SpecRender == InitRender /\ [][NextRender]_vars

-----------------------------------------------------------------------------
(* libmp.run: one producer process, nconsumer consumer processes and one   *)
(* reporter process, joined by two Queues.  A Queue is the sequence of     *)
(* the objects put and not yet got; put never blocks (no maxsize is given) *)
(* and get blocks while the sequence is empty.                             *)

None == "None"

\* DONE = None
DONE == None

\* what the producer target yields, and the consumer targets: one returns
\* its item, one has no return statement and so returns None
Items == {"a", "b", None}
ConsumerTargets == {"echo", "quiet"}
Result(target, item) == IF target = "quiet" THEN None ELSE item

Given(v) == [given |-> TRUE, val |-> v]
PNums == {NotGiven, Given(0), Given(MaxConsumers + 1)}
NConsumers == {NotGiven, Given(-1), Given(0), Given(1), Given(MaxConsumers)}
Products == UNION {[1..k -> Items] : k \in 0..MaxItems}
RunArgs == [pnum : PNums, nconsumer : NConsumers, consumer : ConsumerTargets,
            products : Products]

\* 'if not x': true of None and of 0
Falsy(a) == ~a.given \/ a.val = 0

\* run: 'calc nconsumer if not given', then 'if nconsumer < 1'.  With
\* nconsumer None and pnum set, pnum - nproducer - nconsumer subtracts None
\* from an integer: TypeError
ConsumerCount(pnum, ncons) ==
  IF Falsy(ncons)
  THEN IF Falsy(pnum) THEN [err |-> "none", n |-> 1]
       ELSE IF ~ncons.given THEN [err |-> "TypeError", n |-> 0]
       ELSE [err |-> "none", n |-> Max(1, pnum.val - 1 - ncons.val)]
  ELSE [err |-> "none", n |-> Max(1, ncons.val)]

\* variant: one marker too few
MarkersShort(n) == n - 1

\* for cid in range(nconsumer): oqueue.put(DONE)
Markers(n) == n

CodecViewsIdle ==
  UNCHANGED <<stream, pos, st, openErr, header, index, gen, gi, genErr, ngen,
              emitted, stored, rec, last, attempts, idxSeeks, valid, fmtOff,
              handle, yielded, cin, cval, cops, read, out>>

\* run up to the three start() calls
RunStart ==
  /\ runpc = "called"
  /\ LET c == ConsumerCount(args.pnum, args.nconsumer) IN
     IF c.err # "none"
     THEN /\ runErr' = c.err /\ runpc' = "raised"
          /\ UNCHANGED <<nconsumer, pstate, cstate, rstate, handed>>
     ELSE /\ nconsumer' = c.n
          /\ pstate' = [NoProcess EXCEPT !.pc = "run"]
          /\ cstate' = [i \in 1..c.n |->
                          [NoProcess EXCEPT !.pc = "get", !.counter = 1]]
          /\ rstate' = [NoProcess EXCEPT !.pc = "get", !.counter = c.n]
          /\ handed' = [i \in 1..c.n |-> <<>>]
          /\ runpc' = "join_producer"
          /\ UNCHANGED runErr
  /\ UNCHANGED <<args, todo, producer_queue, consumer_queue, reported>>
  /\ CodecViewsIdle

\* producer: for product in target(...): oqueue.put(product)
ProducerPut ==
  /\ pstate.pc = "run" /\ todo # <<>>
  /\ producer_queue' = Append(producer_queue, Head(todo))
  /\ todo' = Tail(todo)
  /\ UNCHANGED <<args, nconsumer, runpc, runErr, consumer_queue, pstate,
                 cstate, rstate, handed, reported>>
  /\ CodecViewsIdle

\* producer: one oqueue.put(DONE) of the second loop
ProducerMarker ==
  /\ pstate.pc = "run" /\ todo = <<>>
  /\ pstate.counter < Markers(nconsumer)
  /\ producer_queue' = Append(producer_queue, DONE)
  /\ pstate' = [pstate EXCEPT !.counter = @ + 1]
  /\ UNCHANGED <<args, nconsumer, runpc, runErr, todo, consumer_queue,
                 cstate, rstate, handed, reported>>
  /\ CodecViewsIdle

\* producer: _func returns
ProducerExit ==
  /\ pstate.pc = "run" /\ todo = <<>>
  /\ pstate.counter >= Markers(nconsumer)
  /\ pstate' = [pstate EXCEPT !.pc = "done"]
  /\ UNCHANGED <<args, nconsumer, runpc, runErr, todo, producer_queue,
                 consumer_queue, cstate, rstate, handed, reported>>
  /\ CodecViewsIdle

\* consumer c: item = iqueue.get() and the test 'item is DONE'
ConsumerGet(c) ==
  /\ c \in DOMAIN cstate
  /\ cstate[c].pc = "get" /\ producer_queue # <<>>
  /\ producer_queue' = Tail(producer_queue)
  /\ LET item == Head(producer_queue) IN
     cstate' = [cstate EXCEPT ![c] =
       IF item = DONE
       THEN [@ EXCEPT !.counter = @ - 1, !.dones = @ + 1,
                      !.pc = IF cstate[c].counter - 1 < 1
                             THEN "finish" ELSE "get"]
       ELSE [@ EXCEPT !.item = item, !.pc = "call"]]
  /\ UNCHANGED <<args, nconsumer, runpc, runErr, todo, consumer_queue,
                 pstate, rstate, handed, reported>>
  /\ CodecViewsIdle

\* consumer c: res = target(*_args, **kwargs); oqueue.put(res)
ConsumerCall(c) ==
  /\ c \in DOMAIN cstate
  /\ cstate[c].pc = "call"
  /\ handed' = [handed EXCEPT ![c] = Append(@, cstate[c].item)]
  /\ consumer_queue' =
       Append(consumer_queue, Result(args.consumer, cstate[c].item))
  /\ cstate' = [cstate EXCEPT ![c] = [@ EXCEPT !.pc = "get"]]
  /\ UNCHANGED <<args, nconsumer, runpc, runErr, todo, producer_queue,
                 pstate, rstate, reported>>
  /\ CodecViewsIdle

\* consumer c: oqueue.put(DONE) after the loop, and _func returns
ConsumerFinish(c) ==
  /\ c \in DOMAIN cstate
  /\ cstate[c].pc = "finish"
  /\ consumer_queue' = Append(consumer_queue, DONE)
  /\ cstate' = [cstate EXCEPT ![c] = [@ EXCEPT !.pc = "done"]]
  /\ UNCHANGED <<args, nconsumer, runpc, runErr, todo, producer_queue,
                 pstate, rstate, handed, reported>>
  /\ CodecViewsIdle

\* reporter: item = iqueue.get() and the test 'item is None'
ReporterGet ==
  /\ rstate.pc = "get" /\ consumer_queue # <<>>
  /\ consumer_queue' = Tail(consumer_queue)
  /\ LET item == Head(consumer_queue) IN
     rstate' =
       IF item = None
       THEN [rstate EXCEPT !.counter = @ - 1, !.dones = @ + 1,
                           !.pc = IF rstate.counter - 1 < 1
                                  THEN "done" ELSE "get"]
       ELSE [rstate EXCEPT !.item = item, !.pc = "call"]
  /\ UNCHANGED <<args, nconsumer, runpc, runErr, todo, producer_queue,
                 pstate, cstate, handed, reported>>
  /\ CodecViewsIdle

\* reporter: target(*_args, **kwargs)
ReporterCall ==
  /\ rstate.pc = "call"
  /\ reported' = Append(reported, rstate.item)
  /\ rstate' = [rstate EXCEPT !.pc = "get"]
  /\ UNCHANGED <<args, nconsumer, runpc, runErr, todo, producer_queue,
                 consumer_queue, pstate, cstate, handed>>
  /\ CodecViewsIdle

PoolKept ==
  /\ UNCHANGED <<args, nconsumer, runErr, todo, producer_queue,
                 consumer_queue, pstate, cstate, rstate, handed, reported>>
  /\ CodecViewsIdle

\* run: _producer.join()
JoinProducer ==
  /\ runpc = "join_producer" /\ pstate.pc = "done"
  /\ runpc' = "join_consumers"
  /\ PoolKept

\* run: for _consumer in _consumers: _consumer.join()
JoinConsumers ==
  /\ runpc = "join_consumers"
  /\ \A c \in DOMAIN cstate : cstate[c].pc = "done"
  /\ runpc' = "join_reporter"
  /\ PoolKept

\* run: _reporter.join(), and run returns
JoinReporter ==
  /\ runpc = "join_reporter" /\ rstate.pc = "done"
  /\ runpc' = "returned"
  /\ PoolKept

InitPool ==
  /\ stream = [size |-> 0, magic |-> BadMagic] /\ InitHandle
  /\ CodecIdle /\ ViewsIdle
  /\ args \in RunArgs /\ todo = args.products
  /\ nconsumer = 0 /\ runpc = "called" /\ runErr = "none"
  /\ producer_queue = <<>> /\ consumer_queue = <<>>
  /\ pstate = NoProcess /\ cstate = <<>> /\ rstate = NoProcess
  /\ handed = <<>> /\ reported = <<>>

ConsumerIds == 1..MaxConsumers

NextPool ==
  \/ RunStart \/ ProducerPut \/ ProducerMarker \/ ProducerExit
  \/ \E c \in ConsumerIds : ConsumerGet(c)
  \/ \E c \in ConsumerIds : ConsumerCall(c)
  \/ \E c \in ConsumerIds : ConsumerFinish(c)
  \/ ReporterGet \/ ReporterCall
  \/ JoinProducer \/ JoinConsumers \/ JoinReporter

SpecPool == InitPool /\ [][NextPool]_vars

\* every process is scheduled again and again: no enabled step of the
\* caller, the producer, a consumer or the reporter is put off for ever
SpecPoolFair ==
  /\ SpecPool
  /\ WF_vars(RunStart \/ JoinProducer \/ JoinConsumers \/ JoinReporter)
  /\ WF_vars(ProducerPut \/ ProducerMarker \/ ProducerExit)
  /\ \A c \in ConsumerIds :
       WF_vars(ConsumerGet(c) \/ ConsumerCall(c) \/ ConsumerFinish(c))
  /\ WF_vars(ReporterGet \/ ReporterCall)

-----------------------------------------------------------------------------
(* The error kinds of the specification: a failed assert is its            *)
(* FormatError, a struct.error its UnexpectedEndOfData                     *)

FormatError == "AssertionError"
UnexpectedEndOfData == "struct.error"

----------------------------------------------------------------------------
(* Claims *)

\* the header reader has run (to an error or to the end)
HeaderDone == st # "Unopened" \/ openErr # "none"
NoIndexDeclared == header.idx_offset = 0 \/ header.idx_len = 0
FirstIteration == ngen = 1

\* C1: iterating a valid archive yields exactly number_of_reads records, in
\* file order (each record starts where the format puts it), the iteration
\* does not fail, and it is exhausted only after number_of_reads records.
C1_ExactlyNumberOfReads ==
  (valid /\ FirstIteration) =>
     /\ gen # "failed"
     /\ emitted = gi
     /\ emitted <= header.reads_num
     /\ (gen = "exhausted" => emitted = header.reads_num)
     /\ (emitted > 0 => last.ok /\ last.start = last.fmtStart)
     /\ pos = fmtOff

C1_Witness ==
  /\ valid /\ FirstIteration /\ gen = "exhausted"
  /\ header.reads_num >= 2 /\ emitted = header.reads_num

\* C2: while iterating a valid archive, the offset right after each decoded
\* record's data padding is a multiple of 8 away from the start of the data
\* section (offset header_length).
C2_RecordEndAligned ==
  (valid /\ FirstIteration /\ emitted > 0) =>
     /\ pos = last.endpos
     /\ (last.endpos - header.hlen) % 8 = 0

C2_Witness ==
  /\ valid /\ FirstIteration /\ emitted >= 2
  /\ last.hdrPad > 0 /\ last.dataPad > 0
  /\ (last.endpos - header.hlen) % 8 = 0

\* C3 (as amended): a stream whose first 4 bytes are not the magic number
\* never gets past the header reader: no index block and no record is
\* decoded; the error is FormatError when the stream holds the 31 fixed
\* header bytes and UnexpectedEndOfData when it is shorter.
C3_BadMagicFailsFirst ==
  (stream.size >= 4 /\ stream.magic # _SFF) =>
     /\ st = "Unopened" /\ header = NoHeader
     /\ idxSeeks = 0 /\ ~index.parsed
     /\ attempts = 0 /\ emitted = 0 /\ gen = "none"
     /\ (HeaderDone =>
           openErr = IF stream.size >= 31 THEN FormatError
                     ELSE UnexpectedEndOfData)

C3_Witness ==
  /\ stream.size >= 31 /\ stream.magic # _SFF
  /\ HeaderDone /\ openErr = FormatError

\* C3 (as claimed): every stream whose first 4 bytes are not the magic number
\* fails with FormatError before any index block or record is decoded.
C3_Original ==
  (stream.size >= 4 /\ stream.magic # _SFF) =>
     /\ st = "Unopened" /\ header = NoHeader
     /\ idxSeeks = 0 /\ ~index.parsed
     /\ attempts = 0 /\ emitted = 0 /\ gen = "none"
     /\ (HeaderDone => openErr = FormatError)

\* C4 (as claimed): a stream that ends right after the Common Header and
\* declares number_of_reads >= 1 (and, as the minimal archive, no index) can
\* be opened, and its first record read raises UnexpectedEndOfData with zero
\* records yielded.
C4_TruncatedAfterHeader ==
  (/\ st # "Unopened" /\ NoIndexDeclared
   /\ header.reads_num >= 1
   /\ stream.size <= header.hlen) =>
     /\ openErr = "none"
     /\ emitted = 0
     /\ gen # "exhausted"
     /\ (gen = "failed" => genErr = UnexpectedEndOfData /\ attempts = 1)

\* C5 (as amended): every record has 0 <= left_clip; and
\* left_clip <= right_clip <= base_count when the stored clip fields are
\* consistent: no right clip field exceeds base_count, and no left clip
\* field is more than one past the right boundary.
RightBound(s, right) == IF right # 0 THEN right ELSE s.bnum
ConsistentClips(s) ==
  /\ s.qr <= s.bnum /\ s.ar <= s.bnum
  /\ \A left \in {s.ql, s.al} : \A right \in {s.qr, s.ar} :
       left <= RightBound(s, right) + 1

C5_ClipOrder ==
  (rec # NoRead) =>
     /\ 0 <= lclip(rec)
     /\ (ConsistentClips(stored) =>
           lclip(rec) <= rclip(rec) /\ rclip(rec) <= rec.bnum)

C5_Witness ==
  /\ rec # NoRead /\ ConsistentClips(stored)
  /\ stored.ql > 1 /\ stored.qr > 0 /\ stored.qr < stored.bnum
  /\ lclip(rec) = rclip(rec)

\* C5 (as claimed): whatever the stored clip fields and base_count,
\* 0 <= left_clip <= right_clip <= base_count.
C5_Original ==
  (rec # NoRead) =>
     /\ 0 <= lclip(rec)
     /\ lclip(rec) <= rclip(rec)
     /\ rclip(rec) <= rec.bnum

\* C6: left_clip = max(0, clip_qual_left - 1, clip_adapter_left - 1) of the
\* stored values, and 0 when both left clip fields are 0.
C6_LeftClip ==
  (rec # NoRead) =>
     /\ lclip(rec) = Max(0, Max(stored.ql - 1, stored.al - 1))
     /\ (stored.ql = 0 /\ stored.al = 0 => lclip(rec) = 0)

C6_Witness ==
  rec # NoRead /\ stored.ql = 0 /\ stored.al = 0 /\ lclip(rec) = 0

\* C7: right_clip = min(q, a), q being clip_qual_right or, when that is 0,
\* base_count, and a likewise for clip_adapter_right.
C7_RightClip ==
  (rec # NoRead) =>
     /\ rclip(rec) = Min(IF stored.qr # 0 THEN stored.qr ELSE stored.bnum,
                         IF stored.ar # 0 THEN stored.ar ELSE stored.bnum)
     /\ (stored.qr = 0 /\ stored.ar = 0 => rclip(rec) = stored.bnum)

C7_Witness ==
  /\ rec # NoRead /\ stored.qr = 0 /\ stored.ar = 0
  /\ stored.bnum > 0 /\ rclip(rec) = stored.bnum

\* C8 (as claimed): with index_offset = 0 or index_length = 0 the index
\* reader seeks and reads nothing and raises nothing, and the open goes on.
C8_NoIndexOpens ==
  (st # "Unopened" /\ NoIndexDeclared) =>
     /\ idxSeeks = 0
     /\ openErr = "none"

C10_HeaderPadding ==
  last.unpacked =>
     /\ (last.hdrPad < 0 =>
           /\ ~last.ok /\ last.err = FormatError
           /\ last.hdrPadGot = 0)
     /\ (last.hdrPad >= 0 /\ ~last.short => last.hdrPadGot = last.hdrPad)


\* C11 (as amended): the _ReadHeader holds clip_qual_right and
\* clip_adapter_right exactly as stored, and clip_qual_left and
\* clip_adapter_left minus one (0-based, an unset field becoming -1).
C11_HeaderClipFields ==
  (rec # NoRead) =>
     /\ rec.qright = stored.qr /\ rec.aright = stored.ar
     /\ rec.qleft = stored.ql - 1 /\ rec.aleft = stored.al - 1
     /\ rec.bnum = stored.bnum /\ rec.nlen = stored.nlen
     /\ rec.hlen = stored.rhl

C11_Witness ==
  /\ rec # NoRead /\ stored.ql = 0 /\ stored.al = 3
  /\ rec.qleft = -1 /\ rec.aleft = 2

\* C11 (as claimed): the read header holds all four clip fields exactly as
\* stored in the file; nothing is subtracted before the record layer.
C11_Original ==
  (rec # NoRead) =>
     /\ rec.qleft = stored.ql /\ rec.qright = stored.qr
     /\ rec.aleft = stored.al /\ rec.aright = stored.ar


\* C12: decoding the base-36 encoding of a non-negative integer gives the
\* integer back, 0 included (whose encoding is the empty string).
C12_NumRoundTrip ==
  (cin.kind = "num" /\ cops = <<"base36", "debase36">>) => cval = cin
C12_Witness ==
  cin = NumValue(0) /\ cops = <<"base36", "debase36">> /\ cval = cin


\* a string over the 36 symbols 'A'-'Z', '0'-'9' that fits a name field
FitsNameField(s) ==
  /\ Len(s) <= TimeWidth
  /\ \A i \in 1..Len(s) : s[i] \in (65..90) \cup (48..57)

\* C13 (as claimed): encoding the number decoded from a string of the
\* 36-symbol alphabet that fits a name field gives the string back, also
\* when the string begins with 'A', the zero digit.
C13_StrRoundTrip ==
  (cin.kind = "str" /\ FitsNameField(cin.str)
     /\ cops = <<"debase36", "base36">>) => cval = cin


\* C14: decoding the timestamp of (year, month, day, hour, minute, second),
\* with year >= 2000, month in 0..12, day in 0..31, hour in 0..23, minute
\* and second in 0..59, gives the same six values back.
C14_DateRoundTrip ==
  (cin.kind = "date" /\ cops = <<"timestamp", "detimestamp">>) => cval = cin
C14_Witness ==
  /\ cin = DateValue(<<2030, 12, 31, 23, 59, 59>>)
  /\ cops = <<"timestamp", "detimestamp">> /\ cval = cin

\* C15: decoding the location string of (x, y), x >= 0 and y in 0..4095,
\* gives (x, y) back, (0, 0) included.
C15_XYRoundTrip ==
  (cin.kind = "xy" /\ cops = <<"xyloc", "dexyloc">>) => cval = cin
C15_Witness ==
  /\ cin = XYValue(<<4096, 4095>>)
  /\ cops = <<"xyloc", "dexyloc">> /\ cval = cin

\* C16 (as claimed): timestamp always returns exactly six characters.
C16_TimestampWidth ==
  (cin.kind = "date" /\ cops = <<"timestamp">>) => Len(cval.str) = TimeWidth


\* the reader has left through one of its exits: an error while opening, a
\* decode failure in the record sequence, or the end of the sequence
ReaderExited == openErr # "none" \/ gen = "failed" \/ gen = "exhausted"

\* C17 (as claimed): on every exit path (an error during open, a decode
\* failure mid-archive, normal exhaustion) the stream handle acquired at
\* open is closed.
C17_HandleReleased == ReaderExited => handle = "closed"


\* C18 (as claimed): on one open handle of a valid archive, however often
\* the record sequence is requested, at most number_of_reads records are
\* emitted and no bytes after the last record are decoded as a record (no
\* read header is unpacked beyond the number_of_reads-th).
C18_ForwardOnly ==
  valid =>
     /\ emitted <= header.reads_num
     /\ (last.unpacked => attempts <= header.reads_num)


\* some __parse_read call on the handle has raised
DecodeFailed == attempts > emitted

\* C19: once a decode has failed on the handle no further record is yielded
\* from it, whatever generator is asked, and the records the consumer
\* already holds keep their field values at every step.
C19_FailureAborts ==
  [][/\ DecodeFailed => (emitted' = emitted /\ yielded' = yielded)
     /\ Len(yielded') >= Len(yielded)
     /\ \A i \in 1..Len(yielded) : yielded'[i] = yielded[i]]_vars
C19_Witness ==
  /\ emitted >= 1 /\ Len(yielded) = emitted
  /\ ngen = 2 /\ gen = "failed" /\ attempts >= emitted + 2


\* C20 (as claimed): when the stream ends inside the name, the header
\* padding or the data padding of a record (the header padding not being
\* negative), decoding the record fails with UnexpectedEndOfData and the
\* record is not yielded.
C20_ShortFieldFails ==
  (last.unpacked /\ last.short /\ last.hdrPad >= 0) =>
     ~last.ok /\ last.err = UnexpectedEndOfData


\* the clip interval of a record header lies inside the bases
ClipsInOrder(h) == lclip(h) <= rclip(h) /\ rclip(h) <= h.bnum
Upper(c) == IF c \in 97..122 THEN c - 32 ELSE c
TrimmedIndices(h) == {i \in 1..h.bnum : lclip(h) < i /\ i <= rclip(h)}

\* C21 (as claimed): full_bases has the length of bases, with the
\* characters before left_clip and from right_clip on in lower case and
\* those of [left_clip, right_clip) in upper case, whatever the case of the
\* stored basecalls (clip interval inside the bases).
C21_FullBasesCase ==
  (out.view = "full_bases" /\ ClipsInOrder(read.header)) =>
     /\ Len(out.body) = Len(read.bases)
     /\ \A i \in 1..Len(read.bases) :
          out.body[i] = IF i \in TrimmedIndices(read.header)
                        THEN Upper(read.bases[i])
                        ELSE Lower(read.bases[i])

C25_ShortNameViews ==
  (out.view \in {"fasta", "fastq"} /\ Len(read.name) # 14) =>
     /\ out.err = "none"
     /\ out.body = Slice(read.bases, lclip(read.header), rclip(read.header))

\* C26 (as claimed): the trimmed quality view lists exactly the quality
\* values of the bases of [left_clip, right_clip), whole and in order (clip
\* interval inside the bases).
C26_QualValues ==
  (out.view = "qual" /\ out.err = "none" /\ ClipsInOrder(read.header)) =>
     LET h == read.header
         n == rclip(h) - lclip(h)
     IN  out.body =
           JoinSpace([k \in 1..n |-> Decimal(read.quals[lclip(h) + k])])

\* C27 (as claimed): the tab view of a record is returned without an error.
C27_TabView == (out.view = "tab") => out.err = "none"


\* C23: after a successful open the handle stands at header_length, and the
\* first read header is read from there, wherever the index block parsed
\* before lies; the header reader itself stops right after the key
\* sequence, before the header padding.
C23_FirstReadAtHeaderLength ==
  /\ (st = "HeaderParsed" /\ openErr = "none") =>
        pos = 31 + header.flen + header.klen
  /\ (st = "Streaming" /\ attempts = 0) => pos = header.hlen
  /\ (attempts = 1) => last.start = header.hlen
C23_Witness ==
  /\ attempts = 1 /\ index.parsed /\ header.idx_offset > header.hlen
  /\ header.hlen > 31 + header.flen + header.klen
  /\ last.start = header.hlen /\ last.ok


IndexDeclared == header.idx_offset # 0 /\ header.idx_len # 0
\* __parse_index has run, to an error or to its end
IndexReaderDone ==
  \/ st \in {"IndexParsed", "Streaming"}
  \/ (st = "HeaderParsed" /\ openErr # "none")
\* the 8 bytes of index magic number and version were unpacked
IndexPairRead == index.magic # 0
\* '1.00', the four version bytes of a manifest index
ManifestVersion == 49 * 2^24 + 46 * 2^16 + 48 * 2^8 + 48

\* C24 (as amended): with index_offset and index_length both nonzero the
\* index reader seeks once to index_offset and unpacks the 8-byte magic and
\* version; the open fails with FormatError exactly when the magic number is
\* not '.mft', whatever the version; otherwise the manifest is read and the
\* handle is left right after it, the trailing table not read.
C24_IndexMagicChecked ==
  (IndexDeclared /\ IndexReaderDone) =>
     /\ idxSeeks = 1
     /\ IndexPairRead => ((index.magic # _MFT) <=> (openErr = FormatError))
     /\ index.parsed => (index.magic = _MFT /\ openErr = "none")
     /\ (st = "IndexParsed") =>
           pos = header.idx_offset + 16 + index.xml
C24_Witness ==
  /\ IndexDeclared /\ st = "IndexParsed" /\ index.parsed
  /\ index.magic = _MFT /\ index.version # ManifestVersion
  /\ index.xml > 0 /\ pos = header.idx_offset + 16 + index.xml

\* C24 (as claimed): the open fails with FormatError when the magic and
\* version pair read at index_offset mismatches.
C24_Original ==
  (IndexDeclared /\ IndexReaderDone /\ IndexPairRead) =>
     ((index.magic # _MFT \/ index.version # ManifestVersion)
        => openErr = FormatError)


\* the objects the consumer targets were called with, consumer after consumer
RECURSIVE AllHanded(_)
AllHanded(c) == IF c = 0 THEN <<>> ELSE AllHanded(c - 1) \o handed[c]

Occurrences(x, s) == Cardinality({i \in DOMAIN s : s[i] = x})

ResultsOf(s) == [i \in DOMAIN s |-> Result(args.consumer, s[i])]

\* C28: when run has returned, every product of the producer was handed to
\* a consumer target exactly once and every consumer result was passed to
\* the reporter target exactly once, whatever the values are, None included
C28_ExactlyOnce ==
  runpc = "returned" =>
    /\ \A x \in Items :
         Occurrences(x, AllHanded(nconsumer)) = Occurrences(x, args.products)
    /\ \A y \in Items :
         Occurrences(y, reported) =
           Occurrences(y, ResultsOf(AllHanded(nconsumer)))

PoolStarted == runpc \in {"join_producer", "join_consumers", "join_reporter"}

AllExited ==
  /\ pstate.pc = "done" /\ rstate.pc = "done"
  /\ \A c \in DOMAIN cstate : cstate[c].pc = "done"

NoneFree ==
  /\ args.consumer = "echo"
  /\ \A i \in DOMAIN args.products : args.products[i] # None

MarkerCounts ==
  /\ pstate.counter > 0 => todo = <<>>
  /\ pstate.pc = "done" => pstate.counter = nconsumer
  /\ \A c \in DOMAIN cstate :
       cstate[c].pc \in {"finish", "done"} <=> cstate[c].dones = 1
  /\ NoneFree =>
       rstate.dones + Occurrences(DONE, consumer_queue) =
         Cardinality({c \in DOMAIN cstate : cstate[c].pc = "done"})
  /\ rstate.pc = "done" <=> (PoolStarted \/ runpc = "returned")
                              /\ rstate.dones = nconsumer
  /\ runpc = "returned" => AllExited

C30_ConsumerCount ==
  runpc # "called" =>
    /\ runErr = "none"
    /\ nconsumer =
         IF args.nconsumer.given THEN Max(1, args.nconsumer.val)
         ELSE IF args.pnum.given THEN Max(1, args.pnum.val - 2)
         ELSE 1

====
